---- MODULE Spec2Model ----
(***************************************************************************)
(* Model of the blog application's views (blogicum/blog/views.py): the     *)
(* entity store (posts, comments, users, categories), the wall clock, and  *)
(* one action per HTTP request handled by a view.  Every request action    *)
(* records the response it produced in resp, so that access and visibility *)
(* rules can be stated over (store, response) pairs.                       *)
(*                                                                         *)
(* Abstractions: a listing is the set of post ids of the view's queryset   *)
(* (ordering and the 10-per-page pagination are not modelled: the store    *)
(* never holds more than MaxPosts posts); a post carries the fields the    *)
(* views filter on (author, is_published, pub_date, category); of a user's *)
(* profile only the username is kept, the one field the views read.        *)
(* Registration, login and the admin site are left out: the user table     *)
(* holds two accounts throughout and the category table is never written.  *)
(* GET and the POST of an invalid form are one branch of a mutating view:  *)
(* both render the page and write nothing.                                 *)
(***************************************************************************)
EXTENDS Integers, FiniteSets

\* ---------------------------------------------------------------- bounds
MaxPosts == 1
MaxComments == 1
MaxTime == 3

\* ------------------------------------------------------------ value sets
UserIds == {"u1", "u2"}
Usernames == {"alice", "bob", "carol"}
Anonymous == "anonymous"
Viewers == UserIds \cup {Anonymous}

NoCategory == "null"
Slugs == {"tech", "hidden"}
UnknownSlug == "missing"
\* The category table; the blog views never write it.
Category == [s \in Slugs |-> [is_published |-> (s = "tech")]]

Dates == 0 .. MaxTime
\* Ids a URL may name: every id the store can hold and one it never holds.
PkInputs == 1 .. (MaxPosts + 1)
CommentIdInputs == 1 .. (MaxComments + 1)
Texts == {"a", "b"}

PostFields == [is_published : BOOLEAN, pub_date : Dates,
               category : Slugs \cup {NoCategory}]

VARIABLES
    now,              \* the wall clock, what datetime.now() returns
    loaded_at,        \* the clock value when the views module was imported
    posts,            \* post id -> [author, is_published, pub_date, category]
    next_post_id,     \* the next auto-increment post id
    comments,         \* comment id -> [post, author, text]
    next_comment_id,  \* the next auto-increment comment id
    submitted,        \* history: comment id -> [by, pk] of the creating request
    users,            \* user id -> username
    resp              \* the last request and its response

vars == <<now, loaded_at, posts, next_post_id, comments, next_comment_id,
          submitted, users, resp>>

store == <<posts, next_post_id, comments, next_comment_id, submitted, users>>

\* ------------------------------------------------------------- responses
Response(op, viewer, pk, cid, name, status, loc, loc_pk, loc_name, listing) ==
    [op |-> op, viewer |-> viewer, pk |-> pk, cid |-> cid, name |-> name,
     status |-> status, loc |-> loc, loc_pk |-> loc_pk, loc_name |-> loc_name,
     listing |-> listing]

Idle == Response("none", Anonymous, 0, 0, "", 0, "", 0, "", {})

Ok(op, viewer, pk, cid, name, listing) ==
    Response(op, viewer, pk, cid, name, 200, "", 0, "", listing)

NotFound(op, viewer, pk, cid, name) ==
    Response(op, viewer, pk, cid, name, 404, "", 0, "", {})

Forbidden(op, viewer, pk, cid, name) ==
    Response(op, viewer, pk, cid, name, 403, "", 0, "", {})

Redirect(op, viewer, pk, cid, name, loc, loc_pk, loc_name) ==
    Response(op, viewer, pk, cid, name, 302, loc, loc_pk, loc_name, {})

\* --------------------------------------------------------------- helpers
date_now == now

is_authenticated(viewer) == viewer \in UserIds

\* get_object_or_404(User, username=...): the users carrying that username.
UsersNamed(username) == {u \in UserIds : users[u] = username}

\* The join category__is_published=True: a post without a category has no
\* category row to join and is filtered out.
category__is_published(post) ==
    /\ post.category \in Slugs
    /\ Category[post.category].is_published


\* Store updates of the object mapper.
Insert(table, id, row) ==
    [k \in DOMAIN table \cup {id} |-> IF k = id THEN row ELSE table[k]]

Remove(table, ids) == [k \in DOMAIN table \ ids |-> table[k]]

\* Comment.post is a foreign key deleted with its post: the comments that go
\* when post pk is deleted.
CascadeComments(pk) == {k \in DOMAIN comments : comments[k].post = pk}

\* ------------------------------------------------------------ guard tests
\* A test_func that forgets the comparison with the object's author.
OnlyAuthorMixin_test_func_any_user(object, viewer) == is_authenticated(viewer)

\* OnlyAuthorMixin.test_func for an authenticated user and a resolved object.
OnlyAuthorMixin_test_func(object, viewer) == object.author = viewer

\* OnlyUserMixin.test_func for an authenticated user and a resolved user.
OnlyUserMixin_test_func(object, viewer) == users[object] = users[viewer]

\* A get_object that lets every logged-in user through.
PostDetailView_passes_any_user(post, viewer) ==
    post.is_published \/ is_authenticated(viewer)

\* PostDetailView.get_object: the condition under which no Http404 is raised.
PostDetailView_passes(post, viewer) ==
    post.is_published \/ post.author = viewer

\* -------------------------------------------------------------- querysets
\* An index queryset without the category__is_published filter.
PostListView_queryset_no_category ==
    {p \in DOMAIN posts :
        /\ posts[p].pub_date < loaded_at
        /\ posts[p].is_published}

\* PostListView.queryset: a class attribute, so date_now() is evaluated once,
\* when the module is imported; each request re-runs the query with that value.
PostListView_queryset ==
    {p \in DOMAIN posts :
        /\ posts[p].pub_date < loaded_at
        /\ posts[p].is_published
        /\ category__is_published(posts[p])}

\* CategoryListView.get_queryset: built per request.
CategoryListView_get_queryset(slug) ==
    {p \in DOMAIN posts :
        /\ posts[p].pub_date < date_now
        /\ posts[p].is_published
        /\ posts[p].category = slug
        /\ category__is_published(posts[p])}

\* ProfileListView.get_queryset for the resolved profile user.
ProfileListView_get_queryset(viewer, user) ==
    IF is_authenticated(viewer)
    THEN IF users[viewer] = users[user]
         THEN {p \in DOMAIN posts : posts[p].author = user}
         ELSE {p \in DOMAIN posts :
                 /\ posts[p].author = user
                 /\ posts[p].is_published
                 /\ category__is_published(posts[p])}
    ELSE {p \in DOMAIN posts :
            /\ posts[p].author = user
            /\ posts[p].is_published
            /\ category__is_published(posts[p])}

\* ------------------------------------------------------------------- Init
Init ==
    /\ now = 1
    /\ loaded_at = 1
    /\ posts = [p \in {} |-> 0]
    /\ next_post_id = 1
    /\ comments = [k \in {} |-> 0]
    /\ next_comment_id = 1
    /\ submitted = [k \in {} |-> 0]
    /\ users = [u \in UserIds |-> IF u = "u1" THEN "alice" ELSE "bob"]
    /\ resp = Idle

\* The clock advances between requests.
Tick ==
    /\ now < MaxTime
    /\ now' = now + 1
    /\ resp' = Idle
    /\ UNCHANGED <<loaded_at, store>>

\* ------------------------------------------------------------- read views
\* GET /
PostListView ==
    /\ resp' = Ok("index", Anonymous, 0, 0, "", PostListView_queryset)
    /\ UNCHANGED <<now, loaded_at, store>>

\* GET /category/<slug>/ : get() builds the queryset, then get_context_data
\* resolves the category with is_published=True or raises Http404.
CategoryListView(slug) ==
    /\ resp' = IF slug \in Slugs /\ Category[slug].is_published
               THEN Ok("category_posts", Anonymous, 0, 0, slug,
                       CategoryListView_get_queryset(slug))
               ELSE NotFound("category_posts", Anonymous, 0, 0, slug)
    /\ UNCHANGED <<now, loaded_at, store>>

\* GET /posts/<pk>/
PostDetailView(viewer, pk) ==
    /\ resp' = IF pk \notin DOMAIN posts
               THEN NotFound("post_detail", viewer, pk, 0, "")
               ELSE IF ~PostDetailView_passes(posts[pk], viewer)
               THEN NotFound("post_detail", viewer, pk, 0, "")
               ELSE Ok("post_detail", viewer, pk, 0, "", {pk})
    /\ UNCHANGED <<now, loaded_at, store>>

\* GET /accounts/profile/<username>/
ProfileListView(viewer, username) ==
    /\ resp' = IF UsersNamed(username) = {}
               THEN NotFound("profile", viewer, 0, 0, username)
               ELSE Ok("profile", viewer, 0, 0, username,
                       ProfileListView_get_queryset(
                           viewer, CHOOSE u \in UsersNamed(username) : TRUE))
    /\ UNCHANGED <<now, loaded_at, store>>

\* --------------------------------------------------------- mutating views
\* /posts/create/ : LoginRequiredMixin, then CreateView; form_valid sets the
\* author and saves, and the success URL is the creator's profile.
PostCreateView(viewer) ==
    \/ /\ ~is_authenticated(viewer)
       /\ resp' = Redirect("create_post", viewer, 0, 0, "", "login", 0, "")
       /\ UNCHANGED <<now, loaded_at, store>>
    \/ /\ is_authenticated(viewer)          \* GET, or POST of an invalid form
       /\ resp' = Ok("create_post", viewer, 0, 0, "", {})
       /\ UNCHANGED <<now, loaded_at, store>>
    \/ /\ is_authenticated(viewer)          \* POST of a valid form
       /\ next_post_id <= MaxPosts
       /\ \E form \in PostFields :
            posts' = Insert(posts, next_post_id,
                            [author |-> viewer,
                             is_published |-> form.is_published,
                             pub_date |-> form.pub_date,
                             category |-> form.category])
       /\ next_post_id' = next_post_id + 1
       /\ resp' = Redirect("create_post", viewer, 0, 0, "",
                           "profile", 0, users[viewer])
       /\ UNCHANGED <<now, loaded_at, comments, next_comment_id, submitted,
                      users>>

\* /posts/<pk>/edit/ : OnlyAuthorMixin.dispatch runs test_func, which resolves
\* the post only for an authenticated user; a failed test redirects to the
\* post's detail page.
PostUpdateView(viewer, pk) ==
    \/ /\ ~is_authenticated(viewer)
       /\ resp' = Redirect("edit_post", viewer, pk, 0, "", "post_detail", pk, "")
       /\ UNCHANGED <<now, loaded_at, store>>
    \/ /\ is_authenticated(viewer)
       /\ pk \notin DOMAIN posts
       /\ resp' = NotFound("edit_post", viewer, pk, 0, "")
       /\ UNCHANGED <<now, loaded_at, store>>
    \/ /\ is_authenticated(viewer)
       /\ pk \in DOMAIN posts
       /\ ~OnlyAuthorMixin_test_func(posts[pk], viewer)
       /\ resp' = Redirect("edit_post", viewer, pk, 0, "", "post_detail", pk, "")
       /\ UNCHANGED <<now, loaded_at, store>>
    \/ /\ is_authenticated(viewer)          \* GET, or POST of an invalid form
       /\ pk \in DOMAIN posts
       /\ OnlyAuthorMixin_test_func(posts[pk], viewer)
       /\ resp' = Ok("edit_post", viewer, pk, 0, "", {})
       /\ UNCHANGED <<now, loaded_at, store>>
    \/ /\ is_authenticated(viewer)          \* POST of a valid form
       /\ pk \in DOMAIN posts
       /\ OnlyAuthorMixin_test_func(posts[pk], viewer)
       /\ \E form \in PostFields :
            posts' = [posts EXCEPT ![pk] =
                        [author |-> @.author,
                         is_published |-> form.is_published,
                         pub_date |-> form.pub_date,
                         category |-> form.category]]
       /\ resp' = Redirect("edit_post", viewer, pk, 0, "",
                           "get_absolute_url", pk, "")
       /\ UNCHANGED <<now, loaded_at, next_post_id, comments, next_comment_id,
                      submitted, users>>

\* /posts/<pk>/delete/ : the same guard; a POST deletes the post, and its
\* comments with it, and redirects to the index.
PostDeleteView(viewer, pk) ==
    \/ /\ ~is_authenticated(viewer)
       /\ resp' = Redirect("delete_post", viewer, pk, 0, "",
                           "post_detail", pk, "")
       /\ UNCHANGED <<now, loaded_at, store>>
    \/ /\ is_authenticated(viewer)
       /\ pk \notin DOMAIN posts
       /\ resp' = NotFound("delete_post", viewer, pk, 0, "")
       /\ UNCHANGED <<now, loaded_at, store>>
    \/ /\ is_authenticated(viewer)
       /\ pk \in DOMAIN posts
       /\ ~OnlyAuthorMixin_test_func(posts[pk], viewer)
       /\ resp' = Redirect("delete_post", viewer, pk, 0, "",
                           "post_detail", pk, "")
       /\ UNCHANGED <<now, loaded_at, store>>
    \/ /\ is_authenticated(viewer)          \* GET: the confirmation page
       /\ pk \in DOMAIN posts
       /\ OnlyAuthorMixin_test_func(posts[pk], viewer)
       /\ resp' = Ok("delete_post", viewer, pk, 0, "", {})
       /\ UNCHANGED <<now, loaded_at, store>>
    \/ /\ is_authenticated(viewer)          \* POST
       /\ pk \in DOMAIN posts
       /\ OnlyAuthorMixin_test_func(posts[pk], viewer)
       /\ posts' = Remove(posts, {pk})
       /\ comments' = Remove(comments, CascadeComments(pk))
       /\ submitted' = Remove(submitted, CascadeComments(pk))
       /\ resp' = Redirect("delete_post", viewer, pk, 0, "", "index", 0, "")
       /\ UNCHANGED <<now, loaded_at, next_post_id, next_comment_id, users>>

\* What a comment form body may carry: the text field, and author and post
\* values a client may add to it.
CommentBodies == [text : Texts, author : UserIds, post : PkInputs]

\* A form_valid that keeps the author the form body names.
CommentCreateView_form_valid_body_author(viewer, pk, body) ==
    [post |-> pk, author |-> body.author, text |-> body.text]

\* CommentCreateView.form_valid: the instance that is saved.
CommentCreateView_form_valid(viewer, pk, body) ==
    [post |-> pk, author |-> viewer, text |-> body.text]

\* CommentMixin.get_object / CommentDeleteView.get_object: the comment with
\* pk=comment_id and post_id=pk exists.
CommentResolves(pk, cid) ==
    /\ cid \in DOMAIN comments
    /\ comments[cid].post = pk

\* /posts/<pk>/comment/ : dispatch resolves the post first (Http404 for every
\* viewer), then LoginRequiredMixin, then CreateView.
CommentCreateView(viewer, pk) ==
    \/ /\ pk \notin DOMAIN posts
       /\ resp' = NotFound("add_comment", viewer, pk, 0, "")
       /\ UNCHANGED <<now, loaded_at, store>>
    \/ /\ pk \in DOMAIN posts
       /\ ~is_authenticated(viewer)
       /\ resp' = Redirect("add_comment", viewer, pk, 0, "", "login", 0, "")
       /\ UNCHANGED <<now, loaded_at, store>>
    \/ /\ pk \in DOMAIN posts               \* GET, or POST of an invalid form
       /\ is_authenticated(viewer)
       /\ resp' = Ok("add_comment", viewer, pk, 0, "", {})
       /\ UNCHANGED <<now, loaded_at, store>>
    \/ /\ pk \in DOMAIN posts               \* POST of a valid form
       /\ is_authenticated(viewer)
       /\ next_comment_id <= MaxComments
       /\ \E body \in CommentBodies :
            comments' = Insert(comments, next_comment_id,
                               CommentCreateView_form_valid(viewer, pk, body))
       /\ submitted' = Insert(submitted, next_comment_id,
                              [by |-> viewer, pk |-> pk])
       /\ next_comment_id' = next_comment_id + 1
       /\ resp' = Redirect("add_comment", viewer, pk, 0, "",
                           "post_detail", pk, "")
       /\ UNCHANGED <<now, loaded_at, posts, next_post_id, users>>

\* /posts/<pk>/edit_comment/<comment_id>/ : OnlyAuthorMixin over
\* CommentMixin.get_object; the form holds the text field only.
CommentUpdateView(viewer, pk, cid) ==
    \/ /\ ~is_authenticated(viewer)
       /\ resp' = Redirect("edit_comment", viewer, pk, cid, "",
                           "post_detail", pk, "")
       /\ UNCHANGED <<now, loaded_at, store>>
    \/ /\ is_authenticated(viewer)
       /\ ~CommentResolves(pk, cid)
       /\ resp' = NotFound("edit_comment", viewer, pk, cid, "")
       /\ UNCHANGED <<now, loaded_at, store>>
    \/ /\ is_authenticated(viewer)
       /\ CommentResolves(pk, cid)
       /\ ~OnlyAuthorMixin_test_func(comments[cid], viewer)
       /\ resp' = Redirect("edit_comment", viewer, pk, cid, "",
                           "post_detail", pk, "")
       /\ UNCHANGED <<now, loaded_at, store>>
    \/ /\ is_authenticated(viewer)          \* GET, or POST of an invalid form
       /\ CommentResolves(pk, cid)
       /\ OnlyAuthorMixin_test_func(comments[cid], viewer)
       /\ resp' = Ok("edit_comment", viewer, pk, cid, "", {})
       /\ UNCHANGED <<now, loaded_at, store>>
    \/ /\ is_authenticated(viewer)          \* POST of a valid form
       /\ CommentResolves(pk, cid)
       /\ OnlyAuthorMixin_test_func(comments[cid], viewer)
       /\ \E text \in Texts :
            comments' = [comments EXCEPT ![cid].text = text]
       /\ resp' = Redirect("edit_comment", viewer, pk, cid, "",
                           "post_detail", pk, "")
       /\ UNCHANGED <<now, loaded_at, posts, next_post_id, next_comment_id,
                      submitted, users>>

\* /posts/<pk>/delete_comment/<comment_id>/
CommentDeleteView(viewer, pk, cid) ==
    \/ /\ ~is_authenticated(viewer)
       /\ resp' = Redirect("delete_comment", viewer, pk, cid, "",
                           "post_detail", pk, "")
       /\ UNCHANGED <<now, loaded_at, store>>
    \/ /\ is_authenticated(viewer)
       /\ ~CommentResolves(pk, cid)
       /\ resp' = NotFound("delete_comment", viewer, pk, cid, "")
       /\ UNCHANGED <<now, loaded_at, store>>
    \/ /\ is_authenticated(viewer)
       /\ CommentResolves(pk, cid)
       /\ ~OnlyAuthorMixin_test_func(comments[cid], viewer)
       /\ resp' = Redirect("delete_comment", viewer, pk, cid, "",
                           "post_detail", pk, "")
       /\ UNCHANGED <<now, loaded_at, store>>
    \/ /\ is_authenticated(viewer)          \* GET: the confirmation page
       /\ CommentResolves(pk, cid)
       /\ OnlyAuthorMixin_test_func(comments[cid], viewer)
       /\ resp' = Ok("delete_comment", viewer, pk, cid, "", {})
       /\ UNCHANGED <<now, loaded_at, store>>
    \/ /\ is_authenticated(viewer)          \* POST
       /\ CommentResolves(pk, cid)
       /\ OnlyAuthorMixin_test_func(comments[cid], viewer)
       /\ comments' = Remove(comments, {cid})
       /\ submitted' = Remove(submitted, {cid})
       /\ resp' = Redirect("delete_comment", viewer, pk, cid, "",
                           "post_detail", pk, "")
       /\ UNCHANGED <<now, loaded_at, posts, next_post_id, next_comment_id,
                      users>>

\* /auth/edit_profile/<username>/ : OnlyUserMixin keeps the stock
\* handle_no_permission, which raises PermissionDenied for an authenticated
\* user and redirects an anonymous one to the login page.
ProfileUpdateView(viewer, username) ==
    \/ /\ ~is_authenticated(viewer)
       /\ resp' = Redirect("edit_profile", viewer, 0, 0, username,
                           "login", 0, "")
       /\ UNCHANGED <<now, loaded_at, store>>
    \/ /\ is_authenticated(viewer)
       /\ UsersNamed(username) = {}
       /\ resp' = NotFound("edit_profile", viewer, 0, 0, username)
       /\ UNCHANGED <<now, loaded_at, store>>
    \/ /\ is_authenticated(viewer)
       /\ \E object \in UsersNamed(username) :
            ~OnlyUserMixin_test_func(object, viewer)
       /\ resp' = Forbidden("edit_profile", viewer, 0, 0, username)
       /\ UNCHANGED <<now, loaded_at, store>>
    \/ /\ is_authenticated(viewer)          \* GET, or POST of an invalid form
       /\ \E object \in UsersNamed(username) :
            OnlyUserMixin_test_func(object, viewer)
       /\ resp' = Ok("edit_profile", viewer, 0, 0, username, {})
       /\ UNCHANGED <<now, loaded_at, store>>
    \/ /\ is_authenticated(viewer)          \* POST of a valid form
       /\ \E object \in UsersNamed(username) :
            /\ OnlyUserMixin_test_func(object, viewer)
            /\ \E new \in Usernames :
                 /\ \A u \in UserIds \ {object} : users[u] /= new
                 /\ users' = [users EXCEPT ![object] = new]
       /\ resp' = Redirect("edit_profile", viewer, 0, 0, username,
                           "index", 0, "")
       /\ UNCHANGED <<now, loaded_at, posts, next_post_id, comments,
                      next_comment_id, submitted>>

\* ------------------------------------------------------------------- Next
Next ==
    \/ Tick
    \/ PostListView
    \/ \E slug \in Slugs \cup {UnknownSlug} : CategoryListView(slug)
    \/ \E viewer \in Viewers, pk \in PkInputs : PostDetailView(viewer, pk)
    \/ \E viewer \in Viewers, username \in Usernames :
         ProfileListView(viewer, username)
    \/ \E viewer \in Viewers : PostCreateView(viewer)
    \/ \E viewer \in Viewers, pk \in PkInputs : PostUpdateView(viewer, pk)
    \/ \E viewer \in Viewers, pk \in PkInputs : PostDeleteView(viewer, pk)
    \/ \E viewer \in Viewers, pk \in PkInputs : CommentCreateView(viewer, pk)
    \/ \E viewer \in Viewers, pk \in PkInputs, cid \in CommentIdInputs :
         CommentUpdateView(viewer, pk, cid)
    \/ \E viewer \in Viewers, pk \in PkInputs, cid \in CommentIdInputs :
         CommentDeleteView(viewer, pk, cid)
    \/ \E viewer \in Viewers, username \in Usernames :
         ProfileUpdateView(viewer, username)

Spec == Init /\ [][Next]_vars

\* ================================================================ claims
\* The visibility rule of the specification: the author always sees the post;
\* anyone else sees it when it is published, not future-dated, and its
\* category is absent or published.
isPostVisible(post, viewer) ==
    \/ is_authenticated(viewer) /\ viewer = post.author
    \/ /\ post.is_published
       /\ post.pub_date <= now
       /\ (post.category = NoCategory \/ Category[post.category].is_published)

PostGuardOps == {"edit_post", "delete_post"}
CommentGuardOps == {"edit_comment", "delete_comment"}
MutatingOps == PostGuardOps \cup CommentGuardOps
                   \cup {"create_post", "add_comment", "edit_profile"}

\* The request recorded in r is an edit or delete of an existing post or
\* comment by an authenticated user who is not its author (store as given).
NonAuthorRequest(r, ps, cs) ==
    /\ r.viewer \in UserIds
    /\ \/ /\ r.op \in PostGuardOps
          /\ r.pk \in DOMAIN ps
          /\ ps[r.pk].author /= r.viewer
       \/ /\ r.op \in CommentGuardOps
          /\ r.cid \in DOMAIN cs
          /\ cs[r.cid].post = r.pk
          /\ cs[r.cid].author /= r.viewer

\* The request recorded in r is a profile edit of an existing user by an
\* authenticated user with another username.
NonOwnerProfileRequest(r, us) ==
    /\ r.op = "edit_profile"
    /\ r.viewer \in UserIds
    /\ \E u \in UserIds : us[u] = r.name
    /\ us[r.viewer] /= r.name

\* ---- C1
\* C1: an unpublished post's detail page answers 404 to every viewer other
\* than its author, anonymous or authenticated, whatever its pub_date and
\* category.
C1_UnpublishedDetailNotFound ==
    ( /\ resp.op = "post_detail"
      /\ resp.pk \in DOMAIN posts
      /\ ~posts[resp.pk].is_published
      /\ resp.viewer /= posts[resp.pk].author )
    => resp.status = 404

C1_Witness ==
    /\ resp.op = "post_detail"
    /\ resp.viewer \in UserIds
    /\ resp.pk \in DOMAIN posts
    /\ ~posts[resp.pk].is_published
    /\ resp.viewer /= posts[resp.pk].author
    /\ resp.status = 404

\* ---- C2
\* C2: a post whose pub_date is later than the current time answers 404 on its
\* detail page to every viewer other than its author, also when is_published.
C2_FutureDetailNotFound ==
    ( /\ resp.op = "post_detail"
      /\ resp.pk \in DOMAIN posts
      /\ posts[resp.pk].pub_date > now
      /\ resp.viewer /= posts[resp.pk].author )
    => resp.status = 404

\* ---- C3
\* C3: the category listing of an unpublished category answers 404, and the
\* index listing holds no post of an unpublished category.
C3_UnpublishedCategoryHidden ==
    /\ ( /\ resp.op = "category_posts"
         /\ resp.name \in Slugs
         /\ ~Category[resp.name].is_published )
       => resp.status = 404
    /\ resp.op = "index"
       => \A p \in resp.listing :
            ~( /\ posts[p].category \in Slugs
               /\ ~Category[posts[p].category].is_published )

C3_Witness ==
    /\ resp.op = "index"
    /\ \E p \in DOMAIN posts :
         /\ posts[p].category \in Slugs
         /\ ~Category[posts[p].category].is_published
         /\ posts[p].is_published
         /\ posts[p].pub_date < loaded_at
         /\ p \notin resp.listing

\* ---- C4
\* The soft denial: a non-author's edit or delete is answered with a redirect
\* to the post's detail page and leaves posts and comments as they were.
C4_SoftDenial ==
    NonAuthorRequest(resp', posts, comments)
    => /\ resp'.status = 302
       /\ resp'.loc = "post_detail"
       /\ resp'.loc_pk = resp'.pk
       /\ posts' = posts
       /\ comments' = comments

C4_PostsByAuthorOnly ==
    \A p \in DOMAIN posts :
        (p \notin DOMAIN posts' \/ posts'[p] /= posts[p])
        => resp'.viewer = posts[p].author

C4_CommentsChangedByAuthorOnly ==
    \A k \in DOMAIN comments :
        (k \in DOMAIN comments' /\ comments'[k] /= comments[k])
        => resp'.viewer = comments[k].author

\* C4 as stated: soft denial for non-authors, and over any sequence of
\* requests a post or comment is changed or removed only by a request of its
\* own author.
C4_OnlyOwnAuthorChangesOrRemoves ==
    [][ /\ C4_SoftDenial
        /\ C4_PostsByAuthorOnly
        /\ C4_CommentsChangedByAuthorOnly
        /\ \A k \in DOMAIN comments :
             k \notin DOMAIN comments'
             => resp'.viewer = comments[k].author ]_vars

\* C4 as amended: the same, except that a comment is also removed, together
\* with its post, by the post author's delete of that post.
C4_OwnAuthorOrCascade ==
    [][ /\ C4_SoftDenial
        /\ C4_PostsByAuthorOnly
        /\ C4_CommentsChangedByAuthorOnly
        /\ \A k \in DOMAIN comments :
             k \notin DOMAIN comments'
             => \/ resp'.viewer = comments[k].author
                \/ /\ resp'.op = "delete_post"
                   /\ resp'.pk = comments[k].post
                   /\ comments[k].post \notin DOMAIN posts'
                   /\ resp'.viewer = posts[comments[k].post].author ]_vars

C4_Witness ==
    /\ NonAuthorRequest(resp, posts, comments)
    /\ resp.op = "delete_post"
    /\ resp.status = 302
    /\ resp.loc = "post_detail"
    /\ \E k \in DOMAIN comments : comments[k].post = resp.pk

\* ---- C5
\* C5: the profile listing of user O is all of O's posts for O, and for every
\* other viewer holds only posts of O that pass isPostVisible.
C5_ProfileListing ==
    (resp.op = "profile" /\ resp.status = 200)
    => LET O == CHOOSE u \in UserIds : users[u] = resp.name
       IN  IF resp.viewer \in UserIds /\ users[resp.viewer] = resp.name
           THEN resp.listing = {p \in DOMAIN posts : posts[p].author = O}
           ELSE /\ resp.listing \subseteq
                     {p \in DOMAIN posts : posts[p].author = O}
                /\ \A p \in resp.listing : isPostVisible(posts[p], Anonymous)

\* ---- C6
\* C6: a created comment's author is the requesting user and its post the one
\* named in the path, whatever the form body holds; a path naming no post
\* answers 404 and stores nothing; every stored comment keeps the author and
\* post of the request that created it.
C6_CommentBoundToRequest ==
    [][ /\ (resp'.op = "add_comment" /\ resp'.pk \notin DOMAIN posts)
           => (resp'.status = 404 /\ comments' = comments)
        /\ \A k \in DOMAIN comments' \ DOMAIN comments :
             /\ resp'.op = "add_comment"
             /\ comments'[k].author = resp'.viewer
             /\ comments'[k].post = resp'.pk
        /\ \A k \in DOMAIN comments' :
             /\ comments'[k].author = submitted'[k].by
             /\ comments'[k].post = submitted'[k].pk ]_vars

C6_Witness ==
    /\ resp.op = "add_comment"
    /\ resp.status = 302
    /\ resp.loc = "post_detail"
    /\ \E k \in DOMAIN comments :
         /\ comments[k].author = resp.viewer
         /\ comments[k].post = resp.pk
         /\ posts[resp.pk].author /= resp.viewer

\* ---- C7
\* C7: the index listing is exactly the set of posts visible to an anonymous
\* viewer, a published past-dated post without category included.
C7_IndexIsVisibleSet ==
    resp.op = "index"
    => resp.listing = {p \in DOMAIN posts : isPostVisible(posts[p], Anonymous)}

\* ---- C8
\* C8: an authenticated non-owner's edit or delete of a post or comment, or
\* edit of a profile, is answered with a redirect, never an error status, and
\* changes nothing.
C8_SoftDenialEverywhere ==
    [][ (\/ NonAuthorRequest(resp', posts, comments)
         \/ NonOwnerProfileRequest(resp', users))
        => (resp'.status = 302 /\ UNCHANGED store) ]_vars

\* ---- C9
\* C9: an anonymous request to any mutating path is answered with the redirect
\* to the login page and changes nothing.
C9_AnonymousToLogin ==
    [][ (resp'.viewer = Anonymous /\ resp'.op \in MutatingOps)
        => /\ resp'.status = 302
           /\ resp'.loc = "login"
           /\ UNCHANGED store ]_vars

\* ---- C10
\* C10: a published post of a published category whose pub_date lay after the
\* process start is in the index listing, and in its category's listing, on
\* every request made once its pub_date has passed.
DueSinceStart(p) ==
    /\ posts[p].is_published
    /\ posts[p].category \in Slugs
    /\ Category[posts[p].category].is_published
    /\ posts[p].pub_date > loaded_at
    /\ posts[p].pub_date < now

C10_ListedOncePubDatePasses ==
    /\ resp.op = "index"
       => \A p \in DOMAIN posts : DueSinceStart(p) => p \in resp.listing
    /\ (resp.op = "category_posts" /\ resp.status = 200)
       => \A p \in DOMAIN posts :
            (DueSinceStart(p) /\ posts[p].category = resp.name)
            => p \in resp.listing

====
